---- MODULE Spec2Model ----
(***************************************************************************)
(* The storage viewer of modules/webExtensionStorageEditor                 *)
(* (webExtensionStorageEditor.mjs, function init and what it defines):     *)
(* the table of rows, loadEntries (the reconcile pass), the per-row edit   *)
(* handlers, the filter input and the storage.onChanged listener, run      *)
(* against a browser.storage area that other contexts write to as well.    *)
(*                                                                         *)
(* Texts (keys, filters, displayed and edited texts) are sequences of      *)
(* one-character strings, so that includes(), trim(), String(), Number(),  *)
(* JSON.stringify(), JSON.parse() and the CSS parse of the selector that   *)
(* loadEntries builds are computed character by character.                 *)
(*                                                                         *)
(* A JavaScript value is a record [t, v]: t is "null", "boolean",          *)
(* "number", "string", "array" or "object"; v is the payload (a BOOLEAN,   *)
(* an integer, a text, a sequence of values, a sequence of <<name, value>> *)
(* pairs in insertion order).  Numbers are integers here: the texts the    *)
(* model feeds to Number() and JSON.parse() hold no '.', 'e' or 'x'.       *)
(***************************************************************************)
EXTENDS Integers, Sequences, FiniteSets, TLC

(***************************************************************************)
(* Texts                                                                   *)
(***************************************************************************)
Digits == <<"0", "1", "2", "3", "4", "5", "6", "7", "8", "9">>

IsDigit(c) == \E i \in 1..10 : Digits[i] = c

DigitVal(c) == (CHOOSE i \in 1..10 : Digits[i] = c) - 1

\* The white space String.prototype.trim, Number() and JSON.parse skip.
IsSpace(c) == c \in {" ", "\n", "\t", "\r"}

\* key.includes(filter): filter occurs in key as a contiguous substring.
Includes(text, part) ==
    \E i \in 0..(Len(text) - Len(part)) :
        \A j \in 1..Len(part) : text[i + j] = part[j]

RECURSIVE TrimStart(_)
TrimStart(s) ==
    IF s # <<>> /\ IsSpace(Head(s)) THEN TrimStart(Tail(s)) ELSE s

RECURSIVE TrimEnd(_)
TrimEnd(s) ==
    IF s # <<>> /\ IsSpace(s[Len(s)]) THEN TrimEnd(SubSeq(s, 1, Len(s) - 1)) ELSE s

\* String.prototype.trim
Trim(s) == TrimEnd(TrimStart(s))

RECURSIVE NatToText(_)
NatToText(n) ==
    IF n < 10 THEN <<Digits[n + 1]>>
    ELSE NatToText(n \div 10) \o <<Digits[(n % 10) + 1]>>

\* String(n) of an integer n
IntToText(n) == IF n < 0 THEN <<"-">> \o NatToText(-n) ELSE NatToText(n)

RECURSIVE DigitsToNat(_, _)
DigitsToNat(s, acc) ==
    IF s = <<>> THEN acc ELSE DigitsToNat(Tail(s), 10 * acc + DigitVal(Head(s)))

AllDigits(s) == s # <<>> /\ \A i \in 1..Len(s) : IsDigit(s[i])

(***************************************************************************)
(* JavaScript values                                                       *)
(***************************************************************************)
JsNull == [t |-> "null", v |-> 0]

JsBool(b) == [t |-> "boolean", v |-> b]

JsNum(n) == [t |-> "number", v |-> n]

JsStr(s) == [t |-> "string", v |-> s]

JsArr(xs) == [t |-> "array", v |-> xs]

JsObj(ps) == [t |-> "object", v |-> ps]

\* A variant of getType whose composite test lets null through (typeof null
\* is "object").
getTypeNullObject(v) ==
    IF v.t \in {"object", "array", "null"} THEN "object"
    ELSE IF v.t = "boolean" THEN "boolean"
    ELSE IF v.t = "number" THEN "number"
    ELSE "string"

\* getType: the composite test first, then boolean, then number, else string
\* (null and strings).
getType(v) ==
    IF v.t \in {"object", "array"} THEN "object"
    ELSE IF v.t = "boolean" THEN "boolean"
    ELSE IF v.t = "number" THEN "number"
    ELSE "string"

\* The type names as texts, as the template literal of getRowId spells them.
TypeName(ty) ==
    CASE ty = "object"  -> <<"o", "b", "j", "e", "c", "t">>
      [] ty = "boolean" -> <<"b", "o", "o", "l", "e", "a", "n">>
      [] ty = "number"  -> <<"n", "u", "m", "b", "e", "r">>
      [] OTHER          -> <<"s", "t", "r", "i", "n", "g">>

\* String(v) of a value that is not composite
ToStringText(v) ==
    CASE v.t = "boolean" -> IF v.v THEN <<"t", "r", "u", "e">>
                                   ELSE <<"f", "a", "l", "s", "e">>
      [] v.t = "number"  -> IntToText(v.v)
      [] v.t = "string"  -> v.v
      [] OTHER           -> <<"n", "u", "l", "l">>

\* JSON's quoting of a string: '"' and '\' are escaped.
RECURSIVE QuoteBody(_)
QuoteBody(s) ==
    IF s = <<>> THEN <<>>
    ELSE (IF Head(s) \in {"\"", "\\"} THEN <<"\\", Head(s)>> ELSE <<Head(s)>>)
         \o QuoteBody(Tail(s))

Quote(s) == <<"\"">> \o QuoteBody(s) \o <<"\"">>

RECURSIVE Spaces(_)
Spaces(n) == IF n = 0 THEN <<>> ELSE <<" ">> \o Spaces(n - 1)

\* JSON.stringify(v, null, gap) at the indentation `indent`; gap = 0 is the
\* compact form JSON.stringify(v).
RECURSIVE Stringify(_, _, _)
RECURSIVE StringifyItems(_, _, _, _)
StringifyItems(items, isObj, gap, indent) ==
    IF items = <<>> THEN <<>>
    ELSE LET it   == Head(items)
             lead == IF gap = 0 THEN <<>> ELSE <<"\n">> \o Spaces(indent)
             one  == IF isObj
                     THEN Quote(it[1]) \o <<":">>
                          \o (IF gap = 0 THEN <<>> ELSE <<" ">>)
                          \o Stringify(it[2], gap, indent)
                     ELSE Stringify(it, gap, indent)
             sep  == IF Len(items) > 1 THEN <<",">> ELSE <<>>
         IN  lead \o one \o sep \o StringifyItems(Tail(items), isObj, gap, indent)

Stringify(v, gap, indent) ==
    CASE v.t = "string" -> Quote(v.v)
      [] v.t \in {"object", "array"} ->
            LET open  == IF v.t = "object" THEN "{" ELSE "["
                close == IF v.t = "object" THEN "}" ELSE "]"
            IN  IF v.v = <<>> THEN <<open, close>>
                ELSE <<open>>
                     \o StringifyItems(v.v, v.t = "object", gap, indent + gap)
                     \o (IF gap = 0 THEN <<>> ELSE <<"\n">> \o Spaces(indent))
                     \o <<close>>
      [] OTHER -> ToStringText(v)

formatDisplayValue(v) ==
    IF getType(v) = "object" THEN Stringify(v, 0, 0) ELSE ToStringText(v)

formatEditorValue(v) ==
    IF getType(v) = "object" THEN Stringify(v, 2, 0) ELSE ToStringText(v)

getRowId(key, value) == key \o <<".">> \o TypeName(getType(value))

(***************************************************************************)
(* Number(text), as saveEdit applies it to the editor text of a number row *)
(***************************************************************************)
\* The StringToNumber grammar on texts without '.', 'e', 'x': white space is
\* stripped, the empty text is 0, an optionally signed run of decimal digits
\* is its value, "Infinity" (optionally signed) is infinite, all else is NaN.
\* finite is Number.isFinite of the result.
ToNumber(text) ==
    LET s    == Trim(text)
        neg  == s # <<>> /\ Head(s) = "-"
        body == IF s # <<>> /\ Head(s) \in {"-", "+"} THEN Tail(s) ELSE s
    IN  IF s = <<>> THEN [finite |-> TRUE, n |-> 0]
        ELSE IF AllDigits(body)
        THEN [finite |-> TRUE,
              n |-> IF neg THEN 0 - DigitsToNat(body, 0) ELSE DigitsToNat(body, 0)]
        ELSE [finite |-> FALSE, n |-> 0]

(***************************************************************************)
(* JSON.parse(text), as saveEdit applies it to the editor text of an       *)
(* object row: a recursive-descent parse.  A result is [ok, val, pos]:     *)
(* val is the value read and pos the index after it; ok = FALSE is the     *)
(* SyntaxError JSON.parse throws.  String escapes: \" \\ and \n.           *)
(***************************************************************************)
ParseFail == [ok |-> FALSE, val |-> JsNull, pos |-> 0]

RECURSIVE SkipWs(_, _)
SkipWs(s, i) == IF i <= Len(s) /\ IsSpace(s[i]) THEN SkipWs(s, i + 1) ELSE i

StartsAt(s, i, lit) ==
    /\ i + Len(lit) - 1 <= Len(s)
    /\ \A j \in 1..Len(lit) : s[i + j - 1] = lit[j]

\* The characters of a string after its opening quote, from index i.
RECURSIVE ParseStringBody(_, _, _)
ParseStringBody(s, i, acc) ==
    IF i > Len(s) THEN ParseFail
    ELSE IF s[i] = "\"" THEN [ok |-> TRUE, val |-> JsStr(acc), pos |-> i + 1]
    ELSE IF s[i] = "\\"
    THEN IF i + 1 <= Len(s) /\ s[i + 1] \in {"\"", "\\"}
         THEN ParseStringBody(s, i + 2, Append(acc, s[i + 1]))
         ELSE IF i + 1 <= Len(s) /\ s[i + 1] = "n"
         THEN ParseStringBody(s, i + 2, Append(acc, "\n"))
         ELSE ParseFail
    ELSE IF s[i] \in {"\n", "\t", "\r"} THEN ParseFail
    ELSE ParseStringBody(s, i + 1, Append(acc, s[i]))

RECURSIVE DigitRunEnd(_, _)
DigitRunEnd(s, i) ==
    IF i <= Len(s) /\ IsDigit(s[i]) THEN DigitRunEnd(s, i + 1) ELSE i

\* -? ( 0 | [1-9][0-9]* )
ParseNumber(s, i) ==
    LET neg   == i <= Len(s) /\ s[i] = "-"
        first == IF neg THEN i + 1 ELSE i
        last  == DigitRunEnd(s, first)
    IN  IF last = first THEN ParseFail
        ELSE IF s[first] = "0" /\ last > first + 1 THEN ParseFail
        ELSE LET n == DigitsToNat(SubSeq(s, first, last - 1), 0)
             IN  [ok |-> TRUE, val |-> JsNum(IF neg THEN 0 - n ELSE n), pos |-> last]

\* An object's members keep the place of a name's first occurrence and the
\* value of its last.
PutMember(ps, name, val) ==
    IF \E k \in 1..Len(ps) : ps[k][1] = name
    THEN [k \in 1..Len(ps) |-> IF ps[k][1] = name THEN <<name, val>> ELSE ps[k]]
    ELSE Append(ps, <<name, val>>)

RECURSIVE ParseValue(_, _)
RECURSIVE ParseElements(_, _, _)
RECURSIVE ParseMembers(_, _, _)

\* After '[' or ',' : value ws ( ',' ... | ']' )
ParseElements(s, i, acc) ==
    LET e == ParseValue(s, SkipWs(s, i))
    IN  IF ~e.ok THEN ParseFail
        ELSE LET j == SkipWs(s, e.pos)
             IN  IF j > Len(s) THEN ParseFail
                 ELSE IF s[j] = "]"
                 THEN [ok |-> TRUE, val |-> JsArr(Append(acc, e.val)), pos |-> j + 1]
                 ELSE IF s[j] = ","
                 THEN ParseElements(s, j + 1, Append(acc, e.val))
                 ELSE ParseFail

\* After '{' or ',' : string ws ':' value ws ( ',' ... | '}' )
ParseMembers(s, i, acc) ==
    LET j == SkipWs(s, i)
    IN  IF j > Len(s) \/ s[j] # "\"" THEN ParseFail
        ELSE LET name == ParseStringBody(s, j + 1, <<>>)
             IN  IF ~name.ok THEN ParseFail
                 ELSE LET c == SkipWs(s, name.pos)
                      IN  IF c > Len(s) \/ s[c] # ":" THEN ParseFail
                          ELSE LET e == ParseValue(s, SkipWs(s, c + 1))
                               IN  IF ~e.ok THEN ParseFail
                                   ELSE LET k    == SkipWs(s, e.pos)
                                            next == PutMember(acc, name.val.v, e.val)
                                        IN  IF k > Len(s) THEN ParseFail
                                            ELSE IF s[k] = "}"
                                            THEN [ok |-> TRUE, val |-> JsObj(next),
                                                  pos |-> k + 1]
                                            ELSE IF s[k] = ","
                                            THEN ParseMembers(s, k + 1, next)
                                            ELSE ParseFail

ParseValue(s, i) ==
    IF i > Len(s) THEN ParseFail
    ELSE IF s[i] = "{"
    THEN LET j == SkipWs(s, i + 1)
         IN  IF j <= Len(s) /\ s[j] = "}"
             THEN [ok |-> TRUE, val |-> JsObj(<<>>), pos |-> j + 1]
             ELSE ParseMembers(s, i + 1, <<>>)
    ELSE IF s[i] = "["
    THEN LET j == SkipWs(s, i + 1)
         IN  IF j <= Len(s) /\ s[j] = "]"
             THEN [ok |-> TRUE, val |-> JsArr(<<>>), pos |-> j + 1]
             ELSE ParseElements(s, i + 1, <<>>)
    ELSE IF s[i] = "\"" THEN ParseStringBody(s, i + 1, <<>>)
    ELSE IF StartsAt(s, i, <<"t", "r", "u", "e">>)
    THEN [ok |-> TRUE, val |-> JsBool(TRUE), pos |-> i + 4]
    ELSE IF StartsAt(s, i, <<"f", "a", "l", "s", "e">>)
    THEN [ok |-> TRUE, val |-> JsBool(FALSE), pos |-> i + 5]
    ELSE IF StartsAt(s, i, <<"n", "u", "l", "l">>)
    THEN [ok |-> TRUE, val |-> JsNull, pos |-> i + 4]
    ELSE ParseNumber(s, i)

\* JSON.parse(text): ws value ws, and nothing after it.
JsonParse(text) ==
    LET r == ParseValue(text, SkipWs(text, 1))
    IN  IF r.ok /\ SkipWs(text, r.pos) = Len(text) + 1 THEN r ELSE ParseFail

(***************************************************************************)
(* The selector loadEntries builds, `tr[data-row-id="${rowId}"]`: the row  *)
(* id is pasted between the quotes unescaped, and the CSS parser reads it  *)
(* back as a string token.                                                 *)
(***************************************************************************)
\* Printable ASCII, code points 32..126 (the grave accent, 96, cannot be
\* written in a string here and is named by its number).
Ascii ==
    <<
       " ", "!", "\"", "#", "$", "%", "&", "'", "(", ")", "*", "+", ",",
       "-", ".", "/", "0", "1", "2", "3", "4", "5", "6", "7", "8", "9",
       ":", ";", "<", "=", ">", "?", "@", "A", "B", "C", "D", "E", "F",
       "G", "H", "I", "J", "K", "L", "M", "N", "O", "P", "Q", "R", "S",
       "T", "U", "V", "W", "X", "Y", "Z", "[", "\\", "]", "^", "_", "U+96",
       "a", "b", "c", "d", "e", "f", "g", "h", "i", "j", "k", "l", "m",
       "n", "o", "p", "q", "r", "s", "t", "u", "v", "w", "x", "y", "z",
       "{", "|", "}", "~"
    >>

HexDigits == <<"0", "1", "2", "3", "4", "5", "6", "7", "8", "9",
               "a", "b", "c", "d", "e", "f", "A", "B", "C", "D", "E", "F">>

IsHex(c) == \E i \in 1..22 : HexDigits[i] = c

HexVal(c) ==
    LET i == CHOOSE k \in 1..22 : HexDigits[k] = c
    IN  IF i <= 16 THEN i - 1 ELSE i - 7

\* The character of a code point; outside printable ASCII it is named by its
\* number, which is no character of any text of the model.
CodePointChar(n) ==
    IF n \in 32..126 THEN Ascii[n - 31] ELSE "U+" \o ToString(n)

\* The hex digits of an escape, at most 6, from index i: [val, pos].
RECURSIVE HexRun(_, _, _, _)
HexRun(s, i, count, acc) ==
    IF count < 6 /\ i <= Len(s) /\ IsHex(s[i])
    THEN HexRun(s, i + 1, count + 1, 16 * acc + HexVal(s[i]))
    ELSE [val |-> acc, pos |-> i]

\* The string token the CSS parser reads from the text pasted after the
\* opening quote: a backslash escapes the next character (a run of hex
\* digits is a code point, followed by one optional white space; a newline
\* is dropped), a raw newline is a bad string.  The pasted text ends with
\* ".<type>" and is followed by the closing quote and ']', so a quote inside
\* it ends the string early and what follows is no valid selector:
\* querySelector throws a SyntaxError (ok = FALSE).
RECURSIVE CssString(_, _, _)
CssString(s, i, acc) ==
    IF i > Len(s) THEN [ok |-> TRUE, s |-> acc]
    ELSE IF s[i] = "\"" \/ s[i] = "\n" THEN [ok |-> FALSE, s |-> <<>>]
    ELSE IF s[i] = "\\"
    THEN IF i = Len(s) THEN [ok |-> FALSE, s |-> <<>>]
         ELSE IF s[i + 1] = "\n" THEN CssString(s, i + 2, acc)
         ELSE IF IsHex(s[i + 1])
         THEN LET h   == HexRun(s, i + 1, 0, 0)
                  nxt == IF h.pos <= Len(s) /\ IsSpace(s[h.pos])
                         THEN h.pos + 1 ELSE h.pos
              IN  CssString(s, nxt, Append(acc, CodePointChar(h.val)))
         ELSE CssString(s, i + 2, Append(acc, s[i + 1]))
    ELSE CssString(s, i + 1, Append(acc, s[i]))

\* The attribute value that `tr[data-row-id="${rowId}"]` selects.
SelectorValue(rowId) == CssString(rowId, 1, <<>>)

(***************************************************************************)
(* The module URL open() builds and the page's module reads back           *)
(***************************************************************************)
\* An option of open(): given with a text, or omitted.
Given(s) == [given |-> TRUE, s |-> s]

Omitted == [given |-> FALSE, s |-> <<>>]

\* `options?.x || d` and `params.get(x) || d`: an omitted, null or empty
\* value gives the default.
OrDefault(o, d) == IF o.given /\ o.s # <<>> THEN o.s ELSE d

\* The characters encodeURIComponent leaves as they are.
Unreserved ==
    {"a", "b", "c", "d", "e", "f", "g", "h", "i", "j", "k", "l", "m",
     "n", "o", "p", "q", "r", "s", "t", "u", "v", "w", "x", "y", "z",
     "A", "B", "C", "D", "E", "F", "G", "H", "I", "J", "K", "L", "M",
     "N", "O", "P", "Q", "R", "S", "T", "U", "V", "W", "X", "Y", "Z",
     "0", "1", "2", "3", "4", "5", "6", "7", "8", "9",
     "-", "_", ".", "!", "~", "*", "'", "(", ")"}

UpperHex == <<"0", "1", "2", "3", "4", "5", "6", "7", "8", "9",
              "A", "B", "C", "D", "E", "F">>

\* The code point of a printable ASCII character.
CodeOf(c) == 31 + (CHOOSE i \in 1..Len(Ascii) : Ascii[i] = c)

\* A text pasted into the URL as it is.
encodeNothing(s) == s

\* encodeURIComponent on an ASCII text: every character that is not
\* unreserved becomes %XX.
RECURSIVE encodeURIComponent(_)
encodeURIComponent(s) ==
    IF s = <<>> THEN <<>>
    ELSE (IF Head(s) \in Unreserved THEN <<Head(s)>>
          ELSE <<"%", UpperHex[(CodeOf(Head(s)) \div 16) + 1],
                      UpperHex[(CodeOf(Head(s)) % 16) + 1]>>)
         \o encodeURIComponent(Tail(s))

\* import.meta.url of the module.
ModuleUrl == <<"m", ".", "m", "j", "s">>

\* `${import.meta.url}?viewer=1&storageArea=${...}&baseFilter=${...}`
moduleUrlWithParams(storageArea, baseFilter) ==
    ModuleUrl
    \o <<"?", "v", "i", "e", "w", "e", "r", "=", "1">>
    \o <<"&", "s", "t", "o", "r", "a", "g", "e", "A", "r", "e", "a", "=">>
    \o encodeURIComponent(storageArea)
    \o <<"&", "b", "a", "s", "e", "F", "i", "l", "t", "e", "r", "=">>
    \o encodeURIComponent(baseFilter)

\* The first index >= i of character c in s, or Len(s) + 1.
RECURSIVE IndexOf(_, _, _)
IndexOf(s, c, i) ==
    IF i > Len(s) \/ s[i] = c THEN i ELSE IndexOf(s, c, i + 1)

\* The query of a URL: what follows the first '?', up to a '#'.
QueryOf(url) ==
    LET h == IndexOf(url, "#", 1)
        u == SubSeq(url, 1, h - 1)
        q == IndexOf(u, "?", 1)
    IN  SubSeq(u, q + 1, Len(u))

\* Percent-decoding of a form-urlencoded name or value: '+' is a space and
\* %XX is the character of that code; a '%' not followed by two hex digits
\* stays.
RECURSIVE FormDecode(_, _, _)
FormDecode(s, i, acc) ==
    IF i > Len(s) THEN acc
    ELSE IF s[i] = "+" THEN FormDecode(s, i + 1, Append(acc, " "))
    ELSE IF s[i] = "%" /\ i + 2 <= Len(s) /\ IsHex(s[i + 1]) /\ IsHex(s[i + 2])
    THEN FormDecode(s, i + 3,
                    Append(acc, CodePointChar(16 * HexVal(s[i + 1])
                                              + HexVal(s[i + 2]))))
    ELSE FormDecode(s, i + 1, Append(acc, s[i]))

\* URLSearchParams of a query: the pairs between the '&', each split at its
\* first '=', both sides decoded; empty pieces are skipped.
RECURSIVE ParsePairs(_, _)
ParsePairs(q, i) ==
    IF i > Len(q) THEN <<>>
    ELSE LET e     == IndexOf(q, "&", i)
             piece == SubSeq(q, i, e - 1)
             eq    == IndexOf(piece, "=", 1)
             pair  == [name  |-> FormDecode(SubSeq(piece, 1, eq - 1), 1, <<>>),
                       value |-> FormDecode(SubSeq(piece, eq + 1, Len(piece)),
                                            1, <<>>)]
         IN  (IF piece = <<>> THEN <<>> ELSE <<pair>>) \o ParsePairs(q, e + 1)

\* new URL(import.meta.url).searchParams
searchParams(url) == ParsePairs(QueryOf(url), 1)

\* params.has(name)
paramsHas(params, name) == \E i \in 1..Len(params) : params[i].name = name

\* params.get(name): the value of the first pair of that name, or null.
paramsGet(params, name) ==
    IF paramsHas(params, name)
    THEN Given(params[CHOOSE i \in 1..Len(params) :
                        /\ params[i].name = name
                        /\ \A j \in 1..(i - 1) : params[j].name # name].value)
    ELSE Omitted

NameViewer == <<"v", "i", "e", "w", "e", "r">>

NameStorageArea == <<"s", "t", "o", "r", "a", "g", "e", "A", "r", "e", "a">>

NameBaseFilter == <<"b", "a", "s", "e", "F", "i", "l", "t", "e", "r">>

AreaLocal == <<"l", "o", "c", "a", "l">>

AreaSync == <<"s", "y", "n", "c">>

TypePopup == <<"p", "o", "p", "u", "p">>

TypeTab == <<"t", "a", "b">>

(***************************************************************************)
(* Bounds and the finite universe of the model                             *)
(***************************************************************************)
\* Row elements alive at once (in the table, or detached and still held by
\* the closure of a write in flight).
MaxRows == 4

\* The runs that follow the reconcile passes (Spec): loadEntries calls in
\* flight, setValue calls in flight, storage.onChanged events not yet
\* delivered; writes other contexts make to the storage areas, in all, and
\* user gestures (filter input, clicks, keys, typing), in all.
MaxPasses == 2

MaxWrites == 2

MaxEvents == 2

MaxExt == 1

MaxUser == 2

\* The same for the runs that follow the edits of a row (SpecEdit).
MaxEditPasses == 1

MaxEditWrites == 1

MaxEditEvents == 1

MaxEditExt == 1

MaxEditUser == 3

\* The gestures in the runs that follow one row through several edit
\* sessions (SpecSession).
MaxSessionUser == 4

\* Storage operations the backend rejects, in all.
MaxFail == 1

\* In a run that starts with open(): what is in flight at a time, and what
\* other contexts and the user do.
MaxOpen == 1

KeyKZ == <<"k", "z">>

\* k, backslash, z
KeyKBZ == <<"k", "\\", "z">>

KeyKB == <<"k", "b">>

KeyQ == <<"q">>

\* The keys a storage area can hold here, in the order storage.get(null)
\* enumerates them.
Keys == <<KeyKZ, KeyKBZ, KeyKB, KeyQ>>

KeySet == {Keys[i] : i \in 1..Len(Keys)}

\* A key that holds nothing.
Absent == [t |-> "absent", v |-> 0]

ObjX(n) == JsObj(<< <<<<"x">>, JsNum(n)>> >>)

\* What other contexts write: <<key, value>>.
ExtWrites ==
    {<<KeyKZ, JsStr(<<"t">>)>>, <<KeyKZ, JsNum(1)>>, <<KeyKZ, ObjX(1)>>,
     <<KeyKBZ, JsStr(<<"t">>)>>, <<KeyKBZ, JsNum(1)>>,
     <<KeyKB, JsBool(FALSE)>>, <<KeyQ, JsStr(<<"t">>)>>}

\* What other contexts write in one call to several keys.
ExtBatches ==
    {{<<KeyQ, JsStr(<<"t">>)>>, <<KeyKB, JsBool(FALSE)>>}}

\* The keys other contexts remove.
ExtRemoves == {KeyKZ, KeyKBZ}

\* The texts the user types into an editor.
EditTexts ==
    {<<"a", "b", "c">>, <<"2">>, <<"{", "\"", "x", "\"", ":", "2", "}">>}

\* The texts the user types into the filter input.
FilterTexts == {<<" ">>, <<"z", " ">>}

EmptyAll == [k \in KeySet |-> Absent]

VARIABLES
    host,         \* open() and the page it opens: options (of the call), url
                  \* (the module URL with its parameters), surface (the tab
                  \* or popup exists), kind (which of the two), opened
                  \* (open's promise resolved), inited (the page's module has
                  \* run init), area (the storage area init bound)
    baseFilter,   \* init: const baseFilter
    userFilter,   \* init: let userFilter
    store,        \* the bound browser.storage area: key -> value or Absent
    rows,         \* the tr elements alive: handle -> row
    tbody,        \* the handles of the rows in the table, in document order
    passes,       \* loadEntries calls awaiting storage.get or its continuation
    writes,       \* setValue calls awaiting storage.set or its continuation
    events,       \* storage.onChanged events queued for the listener
    lim,          \* the run's bounds on what is in flight (never changes)
    n,            \* what is left of the bounds on writes, gestures, failures
    last          \* the last step taken

vars ==
    <<host, baseFilter, userFilter, store, rows, tbody, passes, writes, events,
      lim, n, last>>

Handles == 1..MaxRows

\* A step's record: op names the step and row its row (0: none); by names
\* the gesture behind a step of the edit button or of a key in the editor;
\* over tells of an enterEdit that the editor held another text than the
\* cached one.
Step(op, h) == [op |-> op, row |-> h, by |-> "", over |-> FALSE]

Gesture(op, h, by) == [Step(op, h) EXCEPT !.by = by]

Without(seq, i) == SubSeq(seq, 1, i - 1) \o SubSeq(seq, i + 1, Len(seq))

InTable(h) == \E i \in 1..Len(tbody) : tbody[i] = h

\* The rows a write in flight still refers to are kept alive by its closure;
\* every other detached row is unreachable.
Alive(rws, body, wr) ==
    LET keep == {body[i] : i \in 1..Len(body)} \cup {wr[j].row : j \in 1..Len(wr)}
    IN  [h \in (DOMAIN rws) \cap keep |-> rws[h]]

(***************************************************************************)
(* loadEntries                                                             *)
(***************************************************************************)
\* createRow(key, value): the tr as it is appended, after attachEditHandler.
createRow(key, value) ==
    [key          |-> key,
     type         |-> getType(value),                \* rowType, tdType
     rowId        |-> getRowId(key, value),          \* tr.dataset.rowId
     displayValue |-> formatDisplayValue(value),     \* tr.dataset.displayValue
     editorValue  |-> formatEditorValue(value),      \* tr.dataset.editorValue
     displayText  |-> formatDisplayValue(value),     \* displayArea.textContent
     editorText   |-> formatEditorValue(value),      \* editorEl.value
     editing      |-> FALSE,                         \* class row-editing
     editShown    |-> FALSE,                         \* editArea shown, displayArea hidden
     errorShown   |-> FALSE,                         \* errorBox.style.display
     errorText    |-> <<>>]                          \* errorBox.textContent

\* document.querySelector(`tr[data-row-id="${rowId}"]`): the first row of
\* the table whose data-row-id is the string the selector denotes; 0: none.
querySelector(rws, body, value) ==
    IF \E i \in 1..Len(body) : rws[body[i]].rowId = value
    THEN body[CHOOSE i \in 1..Len(body) :
                 /\ rws[body[i]].rowId = value
                 /\ \A j \in 1..(i - 1) : rws[body[j]].rowId # value]
    ELSE 0

\* The smallest handle no live row has; 0: none left.
FreeHandle(rws) ==
    IF \E h \in Handles : h \notin DOMAIN rws
    THEN CHOOSE h \in Handles :
            /\ h \notin DOMAIN rws
            /\ \A g \in 1..(h - 1) : g \in DOMAIN rws
    ELSE 0

\* A variant of the patch that leaves the cached editor text as it is.
patchRowDisplayOnly(r, value) ==
    IF r.displayValue # formatDisplayValue(value)
    THEN [r EXCEPT !.displayValue = formatDisplayValue(value),
                   !.displayText  = formatDisplayValue(value),
                   !.editorText   = formatEditorValue(value)]
    ELSE r

\* The patch of an existing row (lines 277-286).
patchRow(r, value) ==
    IF r.displayValue # formatDisplayValue(value)
    THEN [r EXCEPT !.displayValue = formatDisplayValue(value),
                   !.editorValue  = formatEditorValue(value),
                   !.displayText  = formatDisplayValue(value),
                   !.editorText   = formatEditorValue(value)]
    ELSE r

\* tbody.appendChild(tr) of a row already in the table: it moves to the end.
MoveToEnd(body, h) == Append(SelectSeq(body, LAMBDA g : g # h), h)

\* A variant of the test of line 266 that leaves userFilter out.
ShownNoUser(key) == Includes(key, baseFilter)

\* A variant of the test of line 266 that leaves baseFilter out.
ShownNoBase(key) == Includes(key, userFilter)

\* Whether loadEntries shows an entry (line 266).
Shown(key) == Includes(key, baseFilter) /\ Includes(key, userFilter)

\* The for loop over Object.entries(all), from entry i on.  st is
\* [rows, tbody, visibleKeys, threw, full]: threw when querySelector threw,
\* full when the model has no handle left for a new row.
RECURSIVE loadEntriesLoop(_, _, _)
loadEntriesLoop(all, i, st) ==
    IF i > Len(Keys) \/ st.threw \/ st.full THEN st
    ELSE LET key   == Keys[i]
             value == all[key]
         IN  IF value = Absent \/ ~Shown(key) THEN loadEntriesLoop(all, i + 1, st)
             ELSE LET rowId   == getRowId(key, value)
                      visible == st.visibleKeys \cup {rowId}
                      sel     == SelectorValue(rowId)
                      tr      == querySelector(st.rows, st.tbody, sel.s)
                      fresh   == FreeHandle(st.rows)
                  IN  IF ~sel.ok
                      THEN [st EXCEPT !.visibleKeys = visible, !.threw = TRUE]
                      ELSE IF tr # 0
                      THEN loadEntriesLoop(all, i + 1,
                              [st EXCEPT !.visibleKeys = visible,
                                         !.rows = [st.rows EXCEPT ![tr] = patchRow(@, value)],
                                         !.tbody = MoveToEnd(st.tbody, tr)])
                      ELSE IF fresh = 0
                      THEN [st EXCEPT !.full = TRUE]
                      ELSE loadEntriesLoop(all, i + 1,
                              [st EXCEPT !.visibleKeys = visible,
                                         !.rows = (fresh :> createRow(key, value)) @@ st.rows,
                                         !.tbody = Append(st.tbody, fresh)])

\* The removal of the rows that are no longer visible (lines 294-300).
removeRows(rws, body, visibleKeys) ==
    SelectSeq(body, LAMBDA h : rws[h].rowId \in visibleKeys)

\* The continuation of loadEntries after `await storage.get(null)`, on the
\* view (rws, body): [rows, tbody, threw, full].
loadEntries(all, rws, body) ==
    LET st == loadEntriesLoop(all, 1,
                  [rows |-> rws, tbody |-> body, visibleKeys |-> {},
                   threw |-> FALSE, full |-> FALSE])
    IN  [rows  |-> st.rows,
         tbody |-> IF st.threw THEN st.tbody
                   ELSE removeRows(st.rows, st.tbody, st.visibleKeys),
         threw |-> st.threw,
         full  |-> st.full]

\* loadEntries() is called: storage.get(null) is issued.
StartPass == Append(passes, [got |-> FALSE, all |-> EmptyAll])

(***************************************************************************)
(* attachEditHandler: the closures of a row                                *)
(***************************************************************************)
\* A variant of enterEdit that leaves the editor's text as it is.
enterEditKeepsText(r) ==
    [r EXCEPT !.editing = TRUE, !.editShown = TRUE, !.errorShown = FALSE]

\* enterEdit (lines 376-385)
enterEdit(r) ==
    [r EXCEPT !.editing = TRUE, !.editorText = r.editorValue,
              !.editShown = TRUE, !.errorShown = FALSE]

\* A variant of cancelEdit that leaves the errorBox as it is.
cancelEditKeepsError(r) ==
    [r EXCEPT !.editing = FALSE, !.editShown = FALSE]

\* cancelEdit (lines 387-393)
cancelEdit(r) ==
    [r EXCEPT !.editing = FALSE, !.editShown = FALSE, !.errorShown = FALSE]

\* The conversion at the head of saveEdit (lines 397-405): [ok, val, err].
convertEdit(type, text) ==
    IF type = "object"
    THEN LET p == JsonParse(text)
         IN  [ok |-> p.ok, val |-> p.val, err |-> "SyntaxError"]
    ELSE IF type = "number"
    THEN LET c == ToNumber(text)
         IN  [ok |-> c.finite, val |-> JsNum(c.n), err |-> "Value is not a number"]
    ELSE [ok |-> TRUE, val |-> JsStr(text), err |-> ""]

\* A variant of the catch blocks that leaves the row showing the value whose
\* write failed.
showErrorFlipped(r, what, err) ==
    [r EXCEPT !.errorText = <<what, err>>, !.errorShown = TRUE,
              !.displayText = IF @ = <<"t", "r", "u", "e">>
                              THEN <<"f", "a", "l", "s", "e">> ELSE <<"t", "r", "u", "e">>]

\* The catch blocks: errorBox shows "<what> failed: " + err.
showError(r, what, err) ==
    [r EXCEPT !.errorText = <<what, err>>, !.errorShown = TRUE]

\* A variant of line 326 that writes the value the row shows.
toggleValueSame(r) ==
    JsBool(r.displayValue = <<"t", "r", "u", "e">>)

\* The value the toggle of a boolean row writes (line 326).
toggleValue(r) ==
    JsBool(IF r.displayValue = <<"t", "r", "u", "e">> THEN FALSE ELSE TRUE)

\* A variant of setValue that writes to the key q.
setValueCallOtherKey(h, key, val, kind) ==
    Append(writes, [row |-> h, key |-> KeyQ, val |-> val, kind |-> kind,
                    done |-> FALSE, open |-> TRUE])

\* setValue(keyInner, newValue) up to its await: storage.set is issued.
\* The record also notes whether the edit session that issued the call is
\* still open (no cancelEdit has run on the row since).
setValueCall(h, key, val, kind) ==
    Append(writes, [row |-> h, key |-> key, val |-> val, kind |-> kind,
                    done |-> FALSE, open |-> TRUE])

\* cancelEdit() has run on row h: the sessions of the row's saves in flight
\* are over.
sessionClosed(wr, h) ==
    [j \in 1..Len(wr) |->
        IF wr[j].row = h /\ wr[j].kind = "save"
        THEN [wr[j] EXCEPT !.open = FALSE] ELSE wr[j]]

\* A variant of lines 311-315 that displays the editor's formatting.
setValueDonePretty(r, val) ==
    [r EXCEPT !.displayText  = formatEditorValue(val),
              !.displayValue = formatEditorValue(val),
              !.editorValue  = formatEditorValue(val)]

\* setValue after its await (lines 311-315).
setValueDone(r, val) ==
    [r EXCEPT !.displayText  = formatDisplayValue(val),
              !.displayValue = formatDisplayValue(val),
              !.editorValue  = formatEditorValue(val)]

\* What follows `await setValue(...)`: cancelEdit() in saveEdit, the pulse
\* (class row-editing, removed by a timer) in the toggle handler.
afterSetValue(r, kind) ==
    IF kind = "save" THEN cancelEdit(r) ELSE [r EXCEPT !.editing = TRUE]

\* A variant of saveEdit whose catch block drops the edit without a message.
saveEditQuiet(h) ==
    LET r == rows[h]
        c == convertEdit(r.type, r.editorText)
    IN  IF c.ok
        THEN /\ Len(writes) < lim.writes
             /\ writes' = setValueCall(h, r.key, c.val, "save")
             /\ rows' = rows
        ELSE /\ rows' = [rows EXCEPT ![h] = cancelEdit(r)]
             /\ writes' = writes

\* saveEdit() up to its await, on row h: a failed conversion is caught and
\* shown, a converted value goes to setValue.
saveEdit(h) ==
    LET r == rows[h]
        c == convertEdit(r.type, r.editorText)
    IN  IF c.ok
        THEN /\ Len(writes) < lim.writes
             /\ writes' = setValueCall(h, r.key, c.val, "save")
             /\ rows' = rows
        ELSE /\ rows' = [rows EXCEPT ![h] = showError(r, "Save", c.err)]
             /\ writes' = writes

Spend(what) == [n EXCEPT ![what] = @ - 1]

(***************************************************************************)
(* Initial state: init() has run on the empty table: the listeners are     *)
(* registered and the first loadEntries() awaits storage.get.              *)
(***************************************************************************)
StoreOf(kz, kbz, kb, q) ==
    [k \in KeySet |-> IF k = KeyKZ THEN kz ELSE IF k = KeyKBZ THEN kbz
                      ELSE IF k = KeyKB THEN kb ELSE q]

InitStores ==
    {StoreOf(JsStr(<<"s">>), Absent, JsBool(TRUE), JsStr(<<"s">>)),
     StoreOf(JsNum(2), JsStr(<<"s">>), Absent, Absent),
     StoreOf(JsStr(<<"s">>), JsStr(<<"u">>), Absent, Absent)}

EditStores ==
    {StoreOf(v, Absent, Absent, Absent) :
        v \in {ObjX(1), JsNum(1), JsBool(TRUE), JsNull}}

\* The options of the open() call behind the viewer of a run that starts in
\* the viewer.
ViewerOptions ==
    [type |-> Omitted, storageArea |-> Omitted, baseFilter |-> Given(<<"k">>)]

\* The options of the open() calls a run can start with: none at all; a
\* popup on the sync area with a base filter that needs encoding; a type that
\* is neither 'tab' nor 'popup'.
OpenOptions ==
    {[type |-> Omitted, storageArea |-> Omitted, baseFilter |-> Omitted],
     [type |-> Given(TypePopup), storageArea |-> Given(AreaSync),
      baseFilter |-> Given(<<"k", "+">>)],
     [type |-> Given(<<"w">>), storageArea |-> Given(AreaLocal),
      baseFilter |-> Given(<<"k">>)]}

\* The surface open() asks for (lines 34, 162-166).
surfaceKind(o) ==
    IF OrDefault(o.type, TypeTab) = TypePopup THEN "popup" ELSE "tab"

\* init: const storageArea (line 174) and const baseFilter (line 175).
initStorageArea(url) ==
    OrDefault(paramsGet(searchParams(url), NameStorageArea), AreaLocal)

initBaseFilter(url) ==
    OrDefault(paramsGet(searchParams(url), NameBaseFilter), <<>>)

\* open(o) has built the page and awaits the creation of the tab or popup;
\* nothing exists yet.
Opening(o) ==
    [surface |-> FALSE, opened |-> FALSE, inited |-> FALSE, kind |-> "none",
     options |-> o,
     url |-> moduleUrlWithParams(OrDefault(o.storageArea, AreaLocal),
                                 OrDefault(o.baseFilter, <<>>)),
     area |-> <<>>]

\* open() has returned and the page's module has run init().
Ready ==
    LET h == Opening(ViewerOptions)
    IN  [h EXCEPT !.surface = TRUE, !.opened = TRUE, !.inited = TRUE,
                  !.kind = surfaceKind(h.options),
                  !.area = initStorageArea(h.url)]

InitWith(stores, limits, ext, user, h) ==
    /\ host = h
    /\ lim = limits
    /\ baseFilter = IF h.inited THEN initBaseFilter(h.url) ELSE <<>>
    /\ userFilter = <<>>
    /\ store \in stores
    /\ rows = <<>>
    /\ tbody = <<>>
    /\ passes = IF h.inited
                THEN <<[got |-> FALSE, all |-> EmptyAll]>>
                ELSE <<>>
    /\ writes = <<>>
    /\ events = <<>>
    /\ n = [ext |-> ext, user |-> user, fail |-> MaxFail]
    /\ last = Step(IF h.inited THEN "init" ELSE "open", 0)

\* A run that starts with the call of open().
InitOpen ==
    \E o \in OpenOptions :
        InitWith(InitStores,
                 [passes |-> MaxOpen, writes |-> MaxOpen, events |-> MaxOpen],
                 MaxOpen, MaxOpen, Opening(o))

\* A run starts with the call of open() or, with wider bounds, in the viewer
\* that open() has opened.
Init ==
    \/ InitOpen
    \/ InitWith(InitStores,
                [passes |-> MaxPasses, writes |-> MaxWrites, events |-> MaxEvents],
                MaxExt, MaxUser, Ready)

\* As InitEdit, for the runs that follow one row through several sessions.
InitSession ==
    \/ InitOpen
    \/ InitWith({StoreOf(JsNum(1), Absent, Absent, Absent)},
                [passes |-> MaxEditPasses, writes |-> MaxEditWrites,
                 events |-> MaxEditEvents],
                MaxEditExt, MaxSessionUser, Ready)

InitEdit ==
    \/ InitOpen
    \/ InitWith(EditStores,
                [passes |-> MaxEditPasses, writes |-> MaxEditWrites,
                 events |-> MaxEditEvents],
                MaxEditExt, MaxEditUser, Ready)

(***************************************************************************)
(* open() and the page it opens                                            *)
(***************************************************************************)
\* The browser creates the tab or popup for the blob URL (lines 162-166);
\* the promise of tabs.create / windows.create is fulfilled, the page has
\* yet to load.
CreateSurface ==
    /\ ~host.surface
    /\ host' = [host EXCEPT !.surface = TRUE,
                            !.kind = surfaceKind(host.options)]
    /\ last' = Step("surface", 0)
    /\ UNCHANGED <<lim, baseFilter, userFilter, store, rows, tbody, passes, writes,
                   events, n>>

\* open() resumes after its await and returns (lines 168-170): its promise
\* resolves.
OpenResume ==
    /\ host.surface /\ ~host.opened
    /\ host' = [host EXCEPT !.opened = TRUE]
    /\ last' = Step("opened", 0)
    /\ UNCHANGED <<lim, baseFilter, userFilter, store, rows, tbody, passes, writes,
                   events, n>>

\* The page has loaded its module script with ?viewer=1 (lines 436-439):
\* init() takes the filter input's text, registers the listeners and calls
\* loadEntries().
ModuleInit ==
    /\ host.surface /\ ~host.inited
    /\ paramsHas(searchParams(host.url), NameViewer)
    /\ host' = [host EXCEPT !.inited = TRUE,
                            !.area = initStorageArea(host.url)]
    /\ baseFilter' = initBaseFilter(host.url)
    /\ passes' = StartPass
    /\ last' = Step("init", 0)
    /\ UNCHANGED <<lim, userFilter, store, rows, tbody, writes, events, n>>

(***************************************************************************)
(* The storage area and the other contexts that write to it                *)
(***************************************************************************)
\* A variant in which the listener is registered only when no loadEntries
\* is in flight (after the initial pass).
NotifyAfterLoad(ev) ==
    IF host.inited /\ passes = <<>> THEN Append(events, ev) ELSE events

\* browser.storage.onChanged fires: the event is queued for the listener
\* once init() has registered it (line 422).
Notify(ev) == IF host.inited THEN Append(events, ev) ELSE events

\* storage.get(null) of pass i resolves with the area's content.
StorageGetResolve(i) ==
    /\ ~passes[i].got
    /\ passes' = [passes EXCEPT ![i] = [got |-> TRUE, all |-> store]]
    /\ last' = Step("get", 0)
    /\ UNCHANGED <<host, lim, baseFilter, userFilter, store, rows, tbody, writes, events, n>>

\* A variant in which a failed read empties the table.
StorageGetRejectClears(i) ==
    /\ ~passes[i].got
    /\ n.fail > 0
    /\ passes' = Without(passes, i)
    /\ n' = Spend("fail")
    /\ tbody' = <<>>
    /\ rows' = Alive(rows, <<>>, writes)
    /\ last' = Step("getFailed", 0)
    /\ UNCHANGED <<host, lim, baseFilter, userFilter, store, writes, events>>

\* storage.get(null) of pass i rejects: loadEntries has no handler, its
\* promise rejects and nothing else happens.
StorageGetReject(i) ==
    /\ ~passes[i].got
    /\ n.fail > 0
    /\ passes' = Without(passes, i)
    /\ n' = Spend("fail")
    /\ last' = Step("getFailed", 0)
    /\ UNCHANGED <<host, lim, baseFilter, userFilter, store, rows, tbody, writes, events>>

\* storage.set of write j commits; the area's onChanged event is queued.
StorageSetResolve(j) ==
    /\ ~writes[j].done
    /\ Len(events) < lim.events
    /\ store' = [store EXCEPT ![writes[j].key] = writes[j].val]
    /\ writes' = [writes EXCEPT ![j].done = TRUE]
    /\ events' = Notify([own |-> TRUE, keys |-> {writes[j].key}])
    /\ last' = Step("set", writes[j].row)
    /\ UNCHANGED <<host, lim, baseFilter, userFilter, rows, tbody, passes, n>>

\* Another context sets a key of the bound area.
ExtSet(k, v) ==
    /\ n.ext > 0
    /\ Len(events) < lim.events
    /\ store[k] # v
    /\ store' = [store EXCEPT ![k] = v]
    /\ events' = Notify([own |-> TRUE, keys |-> {k}])
    /\ n' = Spend("ext")
    /\ last' = Step("extSet", 0)
    /\ UNCHANGED <<host, lim, baseFilter, userFilter, rows, tbody, passes, writes>>

\* Another context sets the keys of batch in one storage.set call: one
\* onChanged event names them all.
ExtSetMany(batch) ==
    /\ n.ext > 0
    /\ Len(events) < lim.events
    /\ \A w \in batch : store[w[1]] # w[2]
    /\ store' = [k \in KeySet |->
                    IF \E w \in batch : w[1] = k
                    THEN (CHOOSE w \in batch : w[1] = k)[2] ELSE store[k]]
    /\ events' = Notify([own |-> TRUE, keys |-> {w[1] : w \in batch}])
    /\ n' = Spend("ext")
    /\ last' = Step("extSet", 0)
    /\ UNCHANGED <<host, lim, baseFilter, userFilter, rows, tbody, passes, writes>>

\* Another context removes a key of the bound area.
ExtRemove(k) ==
    /\ n.ext > 0
    /\ Len(events) < lim.events
    /\ store[k] # Absent
    /\ store' = [store EXCEPT ![k] = Absent]
    /\ events' = Notify([own |-> TRUE, keys |-> {k}])
    /\ n' = Spend("ext")
    /\ last' = Step("extRemove", 0)
    /\ UNCHANGED <<host, lim, baseFilter, userFilter, rows, tbody, passes, writes>>

\* Another context changes key k of another storage area.
ExtOtherArea(k) ==
    /\ n.ext > 0
    /\ Len(events) < lim.events
    /\ events' = Notify([own |-> FALSE, keys |-> {k}])
    /\ n' = Spend("ext")
    /\ last' = Step("extOther", 0)
    /\ UNCHANGED <<host, lim, baseFilter, userFilter, store, rows, tbody, passes, writes>>

(***************************************************************************)
(* The viewer                                                              *)
(***************************************************************************)
\* The continuation of loadEntries for pass i.
LoadEntriesResume(i) ==
    /\ passes[i].got
    /\ LET res == loadEntries(passes[i].all, rows, tbody)
       IN  /\ ~res.full
           /\ tbody' = res.tbody
           /\ rows' = Alive(res.rows, res.tbody, writes)
           /\ last' = Step(IF res.threw THEN "loadThrew" ELSE "loaded", 0)
    /\ passes' = Without(passes, i)
    /\ UNCHANGED <<host, lim, baseFilter, userFilter, store, writes, events, n>>

\* The user types into the filter input: its listener (lines 416-419) or,
\* before init() has registered it, only the text, which init() takes
\* trimmed as the first userFilter (line 176).
FilterInput(text) ==
    /\ host.surface
    /\ n.user > 0
    /\ userFilter' = Trim(text)
    /\ IF host.inited
       THEN /\ Len(passes) < lim.passes
            /\ passes' = StartPass
       ELSE passes' = passes
    /\ n' = Spend("user")
    /\ last' = Step("filter", 0)
    /\ UNCHANGED <<host, lim, baseFilter, store, rows, tbody, writes, events>>

\* A variant of lines 423-425 that wants every changed key to pass.
ReloadsEvery(ev) == ev.own /\ \A k \in ev.keys : Shown(k)

\* Whether the onChanged listener reloads for an event (lines 423-425).
Reloads(ev) == ev.own /\ \E k \in ev.keys : Shown(k)

\* The storage.onChanged listener gets the oldest queued event.
OnChanged ==
    /\ events # <<>>
    /\ IF Reloads(Head(events))
       THEN /\ Len(passes) < lim.passes
            /\ passes' = StartPass
       ELSE passes' = passes
    /\ events' = Tail(events)
    /\ last' = Step(IF Reloads(Head(events)) THEN "changed"
                     ELSE IF Head(events).own THEN "ignoredKeys" ELSE "ignoredArea", 0)
    /\ UNCHANGED <<host, lim, baseFilter, userFilter, store, rows, tbody, writes, n>>

\* A variant of ClickEditBtn that gives a boolean row the listeners of the
\* other rows.
ClickEditBtnEditsAll(h) ==
    /\ InTable(h)
    /\ n.user > 0
    /\ IF ~rows[h].editing
       THEN /\ rows' = [rows EXCEPT ![h] = enterEdit(@)]
            /\ writes' = writes
            /\ last' = Gesture("enterEdit", h, "click")
       ELSE /\ saveEdit(h)
            /\ last' = Gesture("saveEdit", h, "click")
    /\ n' = Spend("user")
    /\ UNCHANGED <<host, lim, baseFilter, userFilter, store, tbody, passes, events>>

\* A click on the button of row h: the toggle of a boolean row (lines
\* 323-333), else enterEdit or saveEdit (lines 368-374).
ClickEditBtn(h) ==
    /\ InTable(h)
    /\ n.user > 0
    /\ IF rows[h].type = "boolean"
       THEN /\ Len(writes) < lim.writes
            /\ writes' = setValueCall(h, rows[h].key, toggleValue(rows[h]), "toggle")
            /\ rows' = [rows EXCEPT ![h].errorShown = FALSE]
            /\ last' = Gesture("toggle", h, "click")
       ELSE IF ~rows[h].editing
       THEN /\ rows' = [rows EXCEPT ![h] = enterEdit(@)]
            /\ writes' = writes
            /\ last' = [Gesture("enterEdit", h, "click") EXCEPT
                            !.over = rows[h].editorText # rows[h].editorValue]
       ELSE /\ saveEdit(h)
            /\ last' = Gesture("saveEdit", h, "click")
    /\ n' = Spend("user")
    /\ UNCHANGED <<host, lim, baseFilter, userFilter, store, tbody, passes, events>>

\* The user replaces the text of the editor of row h, which is shown.
TypeText(h, text) ==
    /\ InTable(h)
    /\ n.user > 0
    /\ rows[h].editShown
    /\ rows[h].editorText # text
    /\ rows' = [rows EXCEPT ![h].editorText = text]
    /\ n' = Spend("user")
    /\ last' = Step("type", h)
    /\ UNCHANGED <<host, lim, baseFilter, userFilter, store, tbody, passes, writes, events>>

\* Escape with the focus in the editor of row h (lines 346-351; the event
\* then bubbles to the row, whose listener finds the class removed) or, with
\* inEditor = FALSE, elsewhere in the row (lines 340-344).  A boolean row
\* has neither listener.
KeyEscape(h, inEditor) ==
    /\ InTable(h)
    /\ n.user > 0
    /\ rows[h].type # "boolean"
    /\ inEditor => rows[h].editShown
    /\ rows' = [rows EXCEPT ![h] = IF inEditor \/ @.editing THEN cancelEdit(@) ELSE @]
    /\ writes' = IF inEditor \/ rows[h].editing THEN sessionClosed(writes, h)
                 ELSE writes
    /\ n' = Spend("user")
    /\ last' = Step("escape", h)
    /\ UNCHANGED <<host, lim, baseFilter, userFilter, store, tbody, passes, events>>

\* A variant of KeyEnter that saves the rows of every type.
KeyEnterSavesAll(h) ==
    /\ InTable(h)
    /\ n.user > 0
    /\ rows[h].type # "boolean"
    /\ rows[h].editShown
    /\ saveEdit(h)
    /\ last' = Gesture("saveEdit", h, "enter")
    /\ n' = Spend("user")
    /\ UNCHANGED <<host, lim, baseFilter, userFilter, store, tbody, passes, events>>

\* Enter in the editor of row h (lines 354-358): saveEdit, except in the
\* textarea of an object row, where the key inserts a line break.
KeyEnter(h) ==
    /\ InTable(h)
    /\ n.user > 0
    /\ rows[h].type # "boolean"
    /\ rows[h].editShown
    /\ IF rows[h].type # "object"
       THEN /\ saveEdit(h)
            /\ last' = Gesture("saveEdit", h, "enter")
       ELSE /\ rows' = [rows EXCEPT ![h].editorText = Append(@, "\n")]
            /\ writes' = writes
            /\ last' = Gesture("type", h, "enter")
    /\ n' = Spend("user")
    /\ UNCHANGED <<host, lim, baseFilter, userFilter, store, tbody, passes, events>>

\* Ctrl/Cmd+S in the editor of row h (lines 361-365): saveEdit for an
\* object row; for any other row the listener does nothing.
KeyCtrlS(h) ==
    /\ InTable(h)
    /\ n.user > 0
    /\ rows[h].type # "boolean"
    /\ rows[h].editShown
    /\ IF rows[h].type = "object"
       THEN /\ saveEdit(h)
            /\ last' = Gesture("saveEdit", h, "ctrlS")
       ELSE /\ UNCHANGED <<rows, writes>>
            /\ last' = Gesture("noKey", h, "ctrlS")
    /\ n' = Spend("user")
    /\ UNCHANGED <<host, lim, baseFilter, userFilter, store, tbody, passes, events>>

\* The continuation of setValue for write j, whose storage.set has
\* committed, and of the handler that awaited it.
SetValueResume(j) ==
    /\ writes[j].done
    /\ LET w == writes[j]
           r == afterSetValue(setValueDone(rows[w.row], w.val), w.kind)
       IN  /\ writes' = IF w.kind = "save"
                         THEN sessionClosed(Without(writes, j), w.row)
                         ELSE Without(writes, j)
           /\ rows' = Alive([rows EXCEPT ![w.row] = r], tbody, writes')
           /\ last' = Step(IF w.kind = "save" THEN "saved" ELSE "toggled", w.row)
    /\ UNCHANGED <<host, lim, baseFilter, userFilter, store, tbody, passes, events, n>>

\* storage.set of write j rejects: the catch block of the handler that
\* awaited setValue shows the failure.
StorageSetReject(j) ==
    /\ ~writes[j].done
    /\ n.fail > 0
    /\ LET w == writes[j]
           r == showError(rows[w.row], IF w.kind = "save" THEN "Save" ELSE "Toggle",
                          "StorageError")
       IN  /\ writes' = Without(writes, j)
           /\ rows' = Alive([rows EXCEPT ![w.row] = r], tbody, writes')
           /\ last' = Step(IF w.kind = "save" THEN "saveFailed" ELSE "toggleFailed",
                           w.row)
    /\ n' = Spend("fail")
    /\ UNCHANGED <<host, lim, baseFilter, userFilter, store, tbody, passes, events>>

\* The timer of the toggle handler (line 328) removes the pulse class.
PulseTimeout(h) ==
    /\ InTable(h)
    /\ rows[h].type = "boolean"
    /\ rows[h].editing
    /\ rows' = [rows EXCEPT ![h].editing = FALSE]
    /\ last' = Step("pulseEnd", h)
    /\ UNCHANGED <<host, lim, baseFilter, userFilter, store, tbody, passes, writes, events, n>>

Next ==
    \/ CreateSurface
    \/ OpenResume
    \/ ModuleInit
    \/ \E i \in 1..Len(passes) : StorageGetResolve(i)
    \/ \E i \in 1..Len(passes) : StorageGetReject(i)
    \/ \E i \in 1..Len(passes) : LoadEntriesResume(i)
    \/ \E j \in 1..Len(writes) : StorageSetResolve(j)
    \/ \E j \in 1..Len(writes) : StorageSetReject(j)
    \/ \E j \in 1..Len(writes) : SetValueResume(j)
    \/ \E w \in ExtWrites : ExtSet(w[1], w[2])
    \/ \E batch \in ExtBatches : ExtSetMany(batch)
    \/ \E k \in ExtRemoves : ExtRemove(k)
    \/ ExtOtherArea(KeyKZ)
    \/ \E text \in FilterTexts : FilterInput(text)
    \/ OnChanged
    \/ \E h \in Handles : ClickEditBtn(h)
    \/ \E h \in Handles, text \in EditTexts : TypeText(h, text)
    \/ \E h \in Handles, inEditor \in BOOLEAN : KeyEscape(h, inEditor)
    \/ \E h \in Handles : KeyEnter(h)
    \/ \E h \in Handles : KeyCtrlS(h)
    \/ \E h \in Handles : PulseTimeout(h)

Spec == Init /\ [][Next]_vars

SpecEdit == InitEdit /\ [][Next]_vars

SpecSession == InitSession /\ [][Next]_vars

(***************************************************************************)
(* Vocabulary of the properties                                            *)
(***************************************************************************)
TableRows == {tbody[i] : i \in 1..Len(tbody)}

\* The mode of a row: Editing is the class row-editing on a row that has an
\* editor session (a boolean row carries the class only as a pulse).
Editing(r) == r.type # "boolean" /\ r.editing

\* The step is the continuation of loadEntries for pass i.
Applied(i) ==
    /\ passes[i].got
    /\ passes' = Without(passes, i)
    /\ last'.op \in {"loaded", "loadThrew"}

\* The view: the rows of the table, in order.
ViewOf(rws, body) == [i \in 1..Len(body) |-> rws[body[i]]]

\* C1: a reconcile pass leaves the edit buffer of every row that is in
\* Editing mode as it was, also when the row's own key was given another
\* value of the same type elsewhere.
C1_EditBufferKept ==
    [][\A i \in 1..Len(passes) : Applied(i) =>
        \A h \in TableRows \cap TableRows' :
            Editing(rows[h]) => rows'[h].editorText = rows[h].editorText]_vars

\* C2: a row in Editing mode whose entry is still stored and still passes
\* both filters is not removed by a reconcile pass, whatever value (of
\* whatever type) the entry has taken elsewhere: it stays, in Editing mode.
C2_EditingRowStays ==
    [][\A i \in 1..Len(passes) : Applied(i) =>
        \A h \in TableRows :
            (/\ Editing(rows[h])
             /\ passes[i].all[rows[h].key] # Absent
             /\ Shown(rows[h].key))
            => h \in TableRows' /\ Editing(rows'[h])]_vars

\* C3: right after a reconcile pass, a key has a row exactly if the pass
\* read an entry for it and the key contains baseFilter and userFilter.
C3_FilterCorrect ==
    [][\A i \in 1..Len(passes) : Applied(i) =>
        \A k \in KeySet :
            (\E h \in TableRows' : rows'[h].key = k)
            <=> (passes[i].all[k] # Absent /\ Includes(k, baseFilter)
                 /\ Includes(k, userFilter))]_vars

\* C4: every displayed row's key contains baseFilter, and so does the key
\* of every storage.set the viewer has issued.
C4_BaseFilterNarrows ==
    /\ \A h \in TableRows : Includes(rows[h].key, baseFilter)
    /\ \A j \in 1..Len(writes) : Includes(writes[j].key, baseFilter)

\* C4's case: rows are displayed under a user filter, a write of the viewer
\* is in flight, and the area holds a key outside the base filter that
\* another context has just changed.
C4_Witness ==
    /\ tbody # <<>>
    /\ writes # <<>>
    /\ userFilter # <<>>
    /\ store[KeyQ] = JsStr(<<"t">>)
    /\ ~Includes(KeyQ, baseFilter)

\* C5: a reconcile pass leaves a displayed row as it is (mode, edit buffer,
\* error indicator, cached and displayed texts) when the row's entry is
\* still visible and its fresh displayText equals the cached one.
C5_UnchangedRowUntouched ==
    [][\A i \in 1..Len(passes) : Applied(i) =>
        \A h \in TableRows :
            LET k == rows[h].key
                v == passes[i].all[k]
            IN  (/\ v # Absent
                 /\ Shown(k)
                 /\ getRowId(k, v) = rows[h].rowId
                 /\ formatDisplayValue(v) = rows[h].displayValue)
                => h \in TableRows' /\ rows'[h] = rows[h]]_vars

\* C6: a reconcile pass applied a second time, on the same read, with the
\* same filters and nothing in between, changes nothing in the view.
C6_ReconcileIdempotent ==
    \A i \in 1..Len(passes) :
        passes[i].got =>
            LET once  == loadEntries(passes[i].all, rows, tbody)
                twice == loadEntries(passes[i].all, once.rows, once.tbody)
            IN  (~once.full /\ ~twice.full)
                => ViewOf(twice.rows, twice.tbody) = ViewOf(once.rows, once.tbody)

\* C7: when the entry of a displayed row has another value of the same type
\* and is still visible, the reconcile pass keeps the row and gives it the
\* displayed text and the cached texts of the new value.
C7_PatchedInPlace ==
    [][\A i \in 1..Len(passes) : Applied(i) =>
        \A h \in TableRows :
            LET k == rows[h].key
                v == passes[i].all[k]
            IN  (/\ v # Absent
                 /\ Shown(k)
                 /\ getRowId(k, v) = rows[h].rowId
                 /\ formatDisplayValue(v) # rows[h].displayValue)
                => /\ h \in TableRows'
                   /\ rows'[h].displayText = formatDisplayValue(v)
                   /\ rows'[h].displayValue = formatDisplayValue(v)
                   /\ rows'[h].editorValue = formatEditorValue(v)]_vars

\* C8: when the entry of a displayed row has a value of another type and is
\* still visible, the reconcile pass removes the row and creates a new row
\* for the key and the new type, in Viewing mode.
C8_RecreatedOnTypeChange ==
    [][\A i \in 1..Len(passes) : Applied(i) =>
        \A h \in TableRows :
            LET k == rows[h].key
                v == passes[i].all[k]
            IN  (/\ v # Absent
                 /\ Shown(k)
                 /\ getType(v) # rows[h].type)
                => /\ h \notin TableRows'
                   /\ \E g \in TableRows' \ TableRows :
                        /\ rows'[g].key = k
                        /\ rows'[g].type = getType(v)
                        /\ ~rows'[g].editing]_vars

\* C9: the table holds at most one row per row identity.
C9_OneRowPerIdentity ==
    \A i, j \in 1..Len(tbody) :
        i # j => rows[tbody[i]].rowId # rows[tbody[j]].rowId

\* C10: a commit whose text converts to a value v hands v and the row's key
\* to storage.set; when storage.set commits, the area holds v under that
\* key; and when the commit completes, the row shows the compact encoding
\* of v, caches the two encodings of v and is in Viewing mode.
C10_CommitStoresAndShows ==
    [][/\ (last'.op = "saveEdit" /\ Len(writes') > Len(writes)) =>
            LET r == rows[last'.row]
                c == convertEdit(r.type, r.editorText)
                w == writes'[Len(writes')]
            IN  c.ok /\ w.val = c.val /\ w.key = r.key /\ w.row = last'.row
       /\ \A j \in 1..Len(writes) :
            (last'.op = "set" /\ ~writes[j].done /\ writes'[j].done
                /\ writes[j].kind = "save")
            => store'[writes[j].key] = writes[j].val
       /\ \A j \in 1..Len(writes) :
            (last'.op = "saved" /\ writes[j].done /\ writes' = Without(writes, j)
                /\ writes[j].row \in TableRows')
            => LET r == rows'[writes[j].row]
               IN  /\ r.displayText = formatDisplayValue(writes[j].val)
                   /\ r.displayValue = formatDisplayValue(writes[j].val)
                   /\ r.editorValue = formatEditorValue(writes[j].val)
                   /\ ~r.editing /\ ~r.editShown]_vars

\* C10's case: the text {"x":2} has been committed on the object row of key
\* kz: the area holds the parsed object and the row shows it, in Viewing
\* mode.
C10_Witness ==
    /\ last.op = "saved"
    /\ last.row \in TableRows
    /\ rows[last.row].type = "object"
    /\ rows[last.row].key = KeyKZ
    /\ store[KeyKZ] = ObjX(2)
    /\ rows[last.row].displayText = <<"{", "\"", "x", "\"", ":", "2", "}">>
    /\ ~rows[last.row].editing

\* C11: a commit on an object row whose text does not parse, or on a number
\* row whose text does not convert to a finite number, issues no storage.set,
\* leaves the area as it is, keeps the row in Editing mode and shows an
\* error message.
C11_RejectedCommit ==
    [][\A h \in TableRows :
        (/\ last'.op = "saveEdit" /\ last'.row = h
         /\ Editing(rows[h])
         /\ \/ rows[h].type = "object" /\ ~JsonParse(rows[h].editorText).ok
            \/ rows[h].type = "number" /\ ~ToNumber(rows[h].editorText).finite)
        => /\ writes' = writes
           /\ store' = store
           /\ h \in TableRows'
           /\ Editing(rows'[h]) /\ rows'[h].editShown
           /\ rows'[h].errorShown
           /\ rows'[h].errorText[1] = "Save"
           /\ rows'[h].editorText = rows[h].editorText]_vars

\* C11's case: the text abc has been committed on a number row: nothing is
\* written, the row is in Editing mode and shows the error.
C11_Witness ==
    /\ last.op = "saveEdit"
    /\ last.row \in TableRows
    /\ rows[last.row].type = "number"
    /\ rows[last.row].editorText = <<"a", "b", "c">>
    /\ rows[last.row].editing
    /\ rows[last.row].errorShown
    /\ writes = <<>>
    /\ store[KeyKZ] = JsNum(1)

\* C12: the commit of a string, number or object row leaves the row's
\* displayed and cached texts as they are while storage.set is pending, and
\* when storage.set rejects, the row (its entry still stored and passing both
\* filters) is still displayed, stays in Editing mode, shows an error message
\* that carries the failure, and keeps its displayed and cached texts.
C12_FailedCommitKeepsRow ==
    [][\A h \in DOMAIN rows :
        /\ (last'.op = "saveEdit" /\ last'.row = h /\ Len(writes') > Len(writes))
            => rows'[h] = rows[h]
        /\ (/\ last'.op = "saveFailed" /\ last'.row = h
            /\ Editing(rows[h])
            /\ store[rows[h].key] # Absent /\ Shown(rows[h].key))
            => /\ h \in TableRows'
               /\ Editing(rows'[h])
               /\ rows'[h].errorShown
               /\ rows'[h].errorText = <<"Save", "StorageError">>
               /\ rows'[h].displayText = rows[h].displayText
               /\ rows'[h].displayValue = rows[h].displayValue
               /\ rows'[h].editorValue = rows[h].editorValue
               /\ store' = store]_vars

C14_TogglePath ==
    [][\A h \in TableRows :
        /\ (last'.op = "toggle" /\ last'.row = h)
            => /\ rows[h].type = "boolean"
               /\ Len(writes') = Len(writes) + 1
               /\ SubSeq(writes', 1, Len(writes)) = writes
               /\ writes'[Len(writes')].key = rows[h].key
               /\ writes'[Len(writes')].val =
                      JsBool(rows[h].displayValue # <<"t", "r", "u", "e">>)
               /\ writes'[Len(writes')].row = h
               /\ ~rows'[h].editShown
               /\ store' = store
        /\ \A j \in 1..Len(writes) :
            (/\ last'.op = "set" /\ ~writes[j].done /\ writes'[j].done
             /\ writes[j].kind = "toggle")
            => store'[writes[j].key] = writes[j].val
        /\ \A j \in 1..Len(writes) :
            (/\ last'.op = "toggled" /\ last'.row = h
             /\ writes[j].done /\ writes[j].row = h
             /\ writes' = Without(writes, j))
            => /\ rows'[h].displayText = ToStringText(writes[j].val)
               /\ rows'[h].displayValue = ToStringText(writes[j].val)
               /\ ~rows'[h].editShown]_vars

\* C14's case: the row of kz showed true and has been toggled: the area
\* holds false under kz and the row shows false.
C14_Witness ==
    /\ last.op = "toggled"
    /\ last.row \in TableRows
    /\ rows[last.row].type = "boolean"
    /\ rows[last.row].key = KeyKZ
    /\ store[KeyKZ] = JsBool(FALSE)
    /\ rows[last.row].displayText = <<"f", "a", "l", "s", "e">>
    /\ ~rows[last.row].editShown

\* The same storage.set calls are in flight, in the same state.
SameCalls(wr, wr2) ==
    /\ Len(wr) = Len(wr2)
    /\ \A j \in 1..Len(wr) : [wr[j] EXCEPT !.open = wr2[j].open] = wr2[j]

\* C15: Escape on a non-boolean row in Editing mode, with the focus in the
\* editor or elsewhere in the row, puts the row in Viewing mode and hides its
\* error, issues no storage.set and leaves the area and the row's cached and
\* displayed texts as they are.
C15_EscapeCancels ==
    [][\A h \in TableRows :
        (last'.op = "escape" /\ last'.row = h /\ Editing(rows[h]))
        => /\ h \in TableRows'
           /\ ~rows'[h].editing /\ ~rows'[h].editShown
           /\ ~rows'[h].errorShown
           /\ SameCalls(writes, writes')
           /\ store' = store
           /\ rows'[h].displayValue = rows[h].displayValue
           /\ rows'[h].editorValue = rows[h].editorValue
           /\ rows'[h].displayText = rows[h].displayText]_vars

\* C15's case: Escape was pressed on a row whose failed commit had left it
\* in Editing mode with an error: the row is in Viewing mode, the error is
\* hidden.
C15_Witness ==
    /\ last.op = "escape"
    /\ last.row \in TableRows
    /\ rows[last.row].errorText = <<"Save", "StorageError">>
    /\ ~rows[last.row].errorShown
    /\ ~rows[last.row].editing
    /\ ~rows[last.row].editShown
    /\ writes = <<>>

\* C16: the onChanged listener starts a reconcile pass exactly if the event
\* is of the bound area and one of its changed keys contains baseFilter and
\* userFilter; otherwise it issues no storage.get; either way the listener
\* itself leaves the view as it is.
C16_ReloadsOnMatch ==
    [][(/\ events # <<>> /\ events' = Tail(events)
        /\ last'.op \in {"changed", "ignoredArea", "ignoredKeys"})
       => LET ev == Head(events)
              match == /\ ev.own
                       /\ \E k \in ev.keys :
                            Includes(k, baseFilter) /\ Includes(k, userFilter)
          IN  /\ match => /\ Len(passes') = Len(passes) + 1
                          /\ SubSeq(passes', 1, Len(passes)) = passes
                          /\ ~passes'[Len(passes')].got
              /\ ~match => passes' = passes
              /\ rows' = rows /\ tbody' = tbody]_vars

\* C16's case: one event named the keys q and kb, changed elsewhere in one
\* call, while the user filter was z: no key passes, no pass was started.
C16_Witness ==
    /\ last.op = "ignoredKeys"
    /\ userFilter = <<"z">>
    /\ store[KeyQ] = JsStr(<<"t">>)
    /\ store[KeyKB] = JsBool(FALSE)
    /\ passes = <<>>
    /\ tbody # <<>>

\* C17: when storage.get of a reconcile pass rejects, the view (rows, order,
\* modes, edit buffers, cached and displayed texts) is after the failed pass
\* what it was before; the table is not cleared.
C17_FailedReadKeepsView ==
    [][last'.op = "getFailed"
       => /\ tbody' = tbody
          /\ ViewOf(rows', tbody') = ViewOf(rows, tbody)]_vars

\* C17's case: the read of a pass has failed while the table showed a row in
\* Editing mode with typed text: the row is still there, as it was.
C17_Witness ==
    /\ last.op = "getFailed"
    /\ \E h \in TableRows :
        /\ Editing(rows[h])
        /\ rows[h].editorText # rows[h].editorValue

\* C18: every failing storage operation of the viewer leaves a visible
\* trace: when storage.get of a pass rejects, an error indicator appears in
\* the page, and when storage.set of a commit or a toggle rejects, the row it
\* was issued from is displayed and shows its error.
C18_FailuresAreShown ==
    [][/\ last'.op = "getFailed"
          => \E h \in TableRows' :
                /\ rows'[h].errorShown
                /\ ~(/\ h \in TableRows
                     /\ rows[h].errorShown
                     /\ rows[h].errorText = rows'[h].errorText)
       /\ last'.op \in {"saveFailed", "toggleFailed"}
          => /\ last'.row \in TableRows'
             /\ rows'[last'.row].errorShown]_vars

\* C19: a reconcile pass started after storage.set of a value for key K
\* resolved reflects it: the read of the pass, which follows its start,
\* returns what the area holds then (the written value, unless K was written
\* again), and when the pass applies and K contains both filters, a
\* displayed row of K shows the value read.
C19_PassReflectsWrite ==
    [][\A i \in 1..Len(passes) :
        /\ (~passes[i].got /\ Len(passes') = Len(passes) /\ passes'[i].got)
            => passes'[i].all = store
        /\ Applied(i) =>
            \A k \in KeySet :
                (passes[i].all[k] # Absent /\ Shown(k))
                => \E h \in TableRows' :
                      /\ rows'[h].key = k
                      /\ rows'[h].displayText =
                            formatDisplayValue(passes[i].all[k])]_vars

\* C20: when the promise returned by open() resolves, the tab or popup
\* exists and the page's module has run init() in it (the onChanged listener
\* is registered and the first loadEntries() is issued).
C20_OpenResolvesInitialized ==
    [][(~host.opened /\ host'.opened) => (host'.surface /\ host'.inited)]_vars

\* C21: a call of open() creates one display surface, a popup window when
\* the option type is 'popup' and a tab for any other or omitted type, and no
\* second one; the Inspector started in the surface is bound to the storage
\* area and the base filter that were passed, 'local' and '' when omitted.
C21_OpenCreatesBoundSurface ==
    [][/\ (last'.op = "surface")
            => /\ ~host.surface /\ host'.surface
               /\ host'.kind = IF host.options.type = Given(TypePopup)
                               THEN "popup" ELSE "tab"
       /\ host.surface => (host'.surface /\ host'.kind = host.kind)
       /\ (~host.inited /\ host'.inited)
            => /\ host'.area = IF host.options.storageArea.given
                               THEN host.options.storageArea.s ELSE AreaLocal
               /\ baseFilter' = IF host.options.baseFilter.given
                                THEN host.options.baseFilter.s ELSE <<>>]_vars

C21_Witness ==
    /\ host.inited /\ host.kind = "popup" /\ host.area = AreaSync
    /\ host.options.baseFilter = Given(<<"k", "+">>)
    /\ baseFilter = <<"k", "+">>

\* Nothing is outstanding: the viewer runs, no storage.get, no storage.set
\* and no change event is in flight, and no storage operation was rejected.
Quiescent ==
    /\ host.inited
    /\ passes = <<>> /\ writes = <<>> /\ events = <<>>
    /\ n.fail = MaxFail

\* C22: when nothing is outstanding, the displayed rows are exactly the
\* stored entries whose key contains both filters, one row each, and each
\* row shows the display text of the value the storage area holds for its
\* key.
C22_Converges ==
    Quiescent =>
        /\ \A k \in KeySet :
               Cardinality({h \in TableRows : rows[h].key = k})
               = IF store[k] # Absent /\ Shown(k) THEN 1 ELSE 0
        /\ \A h \in TableRows :
               rows[h].displayText = formatDisplayValue(store[rows[h].key])

C24_SaveClosesOwnSession ==
    [][\A j \in 1..Len(writes) :
        (/\ last'.op = "saved" /\ last'.row = writes[j].row
         /\ writes[j].done /\ ~writes[j].open
         /\ Len(writes') = Len(writes) - 1
         /\ InTable(writes[j].row)
         /\ Editing(rows[writes[j].row]))
        => /\ Editing(rows'[writes[j].row])
           /\ rows'[writes[j].row].editShown
           /\ rows'[writes[j].row].editorText
                = rows[writes[j].row].editorText]_vars

\* C25: the toggle of a boolean row writes the negation of the boolean the
\* storage area holds for the row's key when the button is pressed, also
\* when another context has changed the key and the row does not show it
\* yet.
C25_ToggleNegatesStored ==
    [][(/\ last'.op = "toggle"
        /\ Len(writes') = Len(writes) + 1
        /\ store[rows[last'.row].key].t = "boolean")
       => writes'[Len(writes')].val
            = JsBool(~store[rows[last'.row].key].v)]_vars

\* C26: the type of a displayed row (its label, the suffix of its id, its
\* edit control) is the type of the value whose display text it shows: of
\* the value a commit or toggle has stored and displayed, and of the value
\* a reconcile pass has put into the row.
C26_RowTypeIsValueType ==
    [][/\ \A j \in 1..Len(writes) :
            (/\ last'.op \in {"saved", "toggled"}
             /\ last'.row = writes[j].row
             /\ writes[j].done
             /\ Len(writes') = Len(writes) - 1
             /\ writes[j].row \in TableRows')
            => rows'[writes[j].row].type = getType(writes[j].val)
       /\ \A i \in 1..Len(passes) :
            (Applied(i) /\ last'.op = "loaded") =>
                \A h \in TableRows' :
                    \E k \in KeySet :
                        /\ passes[i].all[k] # Absent
                        /\ rows'[h].type = getType(passes[i].all[k])
                        /\ (h \notin TableRows \/ rows'[h] # rows[h])
                             => rows'[h].displayText
                                  = formatDisplayValue(passes[i].all[k])]_vars

\* The place of a key in the enumeration of storage.get(null).
KeyIndex(k) == CHOOSE i \in 1..Len(Keys) : Keys[i] = k

\* The place of row h in the table body.
RowIndex(body, h) == CHOOSE i \in 1..Len(body) : body[i] = h

\* C27: right after a reconcile pass the displayed rows stand in the order
\* in which storage.get(null) enumerated their entries, new rows included,
\* and two rows that were displayed before the pass and still are stand in
\* the same order as before.
C27_EnumerationOrder ==
    [][\A i \in 1..Len(passes) :
        (Applied(i) /\ last'.op = "loaded") =>
            /\ \A a, b \in 1..Len(tbody') :
                   a < b => KeyIndex(rows'[tbody'[a]].key)
                              < KeyIndex(rows'[tbody'[b]].key)
            /\ \A g, h \in TableRows \cap TableRows' :
                   (RowIndex(tbody, g) < RowIndex(tbody, h))
                   => (RowIndex(tbody', g) < RowIndex(tbody', h))]_vars

\* C28: when a row goes from Viewing to Editing, its editor is given the
\* row's cached editor text, whatever text an earlier cancelled or failed
\* edit has left in it.
C28_EditorFromCache ==
    [][\A h \in TableRows :
        (/\ last'.op = "enterEdit" /\ last'.row = h
         /\ ~Editing(rows[h]))
        => /\ Editing(rows'[h])
           /\ rows'[h].editShown
           /\ rows'[h].editorText = rows[h].editorValue
           /\ rows'[h].editorValue = rows[h].editorValue]_vars

\* C28's case: the row has just entered Editing mode over the text a
\* cancelled edit had left in its editor.
C28_Witness ==
    /\ last.op = "enterEdit" /\ last.over
    /\ InTable(last.row)
    /\ Editing(rows[last.row])
    /\ rows[last.row].editorText = rows[last.row].editorValue

\* The step has issued a save of row h: a storage.set is in flight for it
\* that was not before.
SaveIssued(h) ==
    /\ Len(writes') = Len(writes) + 1
    /\ writes'[Len(writes')].row = h
    /\ writes'[Len(writes')].kind = "save"
    /\ writes'[Len(writes')].key = rows[h].key

\* C29: Enter in the editor starts the commit of a number or string row (a
\* storage.set is issued, or the text is refused with a message) and never
\* that of an object row, whose editor only takes the line break; the save
\* of an object row is issued only by Ctrl/Cmd+S or by the button of the row
\* in Editing mode.
C29_CommitGestures ==
    [][\A h \in TableRows :
        /\ (last'.row = h /\ last'.by = "enter") =>
              IF rows[h].type \in {"number", "string"}
              THEN /\ last'.op = "saveEdit"
                   /\ \/ SaveIssued(h)
                      \/ /\ rows'[h].errorShown
                         /\ writes' = writes
              ELSE /\ rows[h].type = "object"
                   /\ last'.op # "saveEdit"
                   /\ writes' = writes
                   /\ rows'[h].errorShown = rows[h].errorShown
                   /\ Editing(rows'[h]) = Editing(rows[h])
        /\ (SaveIssued(h) /\ rows[h].type = "object") =>
              \/ last'.by = "ctrlS"
              \/ last'.by = "click" /\ Editing(rows[h])]_vars

\* C29's case: in the editor of an object row Enter has been pressed, which
\* left a line break and issued nothing, and then Ctrl/Cmd+S, which has
\* issued the save.
C29_Witness ==
    /\ last.op = "saveEdit" /\ last.by = "ctrlS"
    /\ InTable(last.row)
    /\ rows[last.row].type = "object"
    /\ Len(rows[last.row].editorText) > 0
    /\ rows[last.row].editorText[Len(rows[last.row].editorText)] = "\n"
    /\ Len(writes) = 1 /\ writes[1].row = last.row /\ writes[1].kind = "save"

\* C30: the editor of a boolean row is never shown; the only gesture a
\* boolean row answers is the click on its button, which is the toggle and
\* leaves the row in Viewing mode.
C30_BooleanNeverEdited ==
    [][/\ \A h \in DOMAIN rows' :
              rows'[h].type = "boolean" => ~rows'[h].editShown
       /\ \A h \in TableRows :
              (rows[h].type = "boolean" /\ last'.row = h /\ last'.by # "")
              => /\ last'.op = "toggle" /\ last'.by = "click"
                 /\ ~Editing(rows'[h])
                 /\ rows'[h].editorText = rows[h].editorText
                 /\ rows'[h].displayText = rows[h].displayText]_vars

\* C30's case: a boolean row has been toggled and carries the class
\* row-editing for its pulse; its editor is not shown.
C30_Witness ==
    /\ last.op = "toggled"
    /\ InTable(last.row)
    /\ rows[last.row].type = "boolean"
    /\ rows[last.row].editing
    /\ ~rows[last.row].editShown

\* C31: the table never holds two rows for one key, of the same type or of
\* two types.
C31_OneRowPerKey ==
    \A i, j \in 1..Len(tbody) :
        i # j => rows[tbody[i]].key # rows[tbody[j]].key

\* C32: the viewer changes the area only through the storage.set of a commit
\* or toggle (every other change is the write of another context); such a
\* call is issued only by a save or toggle gesture, for the key of the row
\* acted on, and when it commits no other key changes; reconcile passes,
\* filter input and change events issue no call and change no key.
C32_WritesOwnKeyOnly ==
    [][/\ (store' # store) => last'.op \in {"set", "extSet", "extRemove"}
       /\ (Len(writes') > Len(writes)) =>
              /\ last'.op \in {"saveEdit", "toggle"}
              /\ last'.by \in {"click", "enter", "ctrlS"}
              /\ Len(writes') = Len(writes) + 1
              /\ writes'[Len(writes')].row = last'.row
              /\ writes'[Len(writes')].key = rows[last'.row].key
              /\ store' = store
       /\ (last'.op = "set") =>
              \E j \in 1..Len(writes) :
                  /\ ~writes[j].done /\ writes'[j].done
                  /\ writes[j].row = last'.row
                  /\ writes[j].key = rows[last'.row].key
                  /\ \A k \in KeySet \ {writes[j].key} : store'[k] = store[k]
       /\ (last'.op \in {"loaded", "loadThrew", "filter", "changed",
                         "ignoredKeys", "ignoredArea"}) =>
              /\ store' = store
              /\ SameCalls(writes, writes')]_vars

\* C32's case: the storage.set of a row's write has just committed in an
\* area that holds other keys as well: the area holds the written value
\* under the row's key.
C32_Witness ==
    /\ last.op = "set"
    /\ \E j \in 1..Len(writes) :
           /\ writes[j].done /\ writes[j].row = last.row
           /\ writes[j].key = rows[last.row].key
           /\ store[writes[j].key] = writes[j].val
           /\ store[KeyQ] # Absent
           /\ writes[j].key # KeyQ

\* C33: storage.get is issued and answered only when the onChanged listener
\* is registered, so every write to the bound area that commits from then
\* on, the ones after the initial read included, queues an event that names
\* the changed keys, and an event leaves the queue only by being handed to
\* the listener.
C33_NoChangeMissed ==
    [][/\ (passes' # <<>>) => host'.inited
       /\ (/\ last'.op \in {"set", "extSet", "extRemove"}
           /\ \/ host.inited
              \/ \E i \in 1..Len(passes) : passes[i].got)
          => /\ Len(events') = Len(events) + 1
             /\ SubSeq(events', 1, Len(events)) = events
             /\ events'[Len(events')].own
             /\ \A k \in KeySet :
                    store'[k] # store[k] => k \in events'[Len(events')].keys
       /\ (Len(events') < Len(events))
          => last'.op \in {"changed", "ignoredKeys", "ignoredArea"}]_vars

\* C33's case: the initial read has been taken and not yet applied, and
\* another context has just changed the area: the event is queued.
C33_Witness ==
    /\ last.op = "extSet"
    /\ tbody = <<>>
    /\ Len(passes) = 1 /\ passes[1].got /\ passes[1].all # store
    /\ Len(events) = 1 /\ events[1].own

\* C34: a commit of the editor text as enterEdit put it there, on a row that
\* shows the value the area holds for its key, issues a storage.set of that
\* same value.
C34_UnalteredCommitKeepsValue ==
    [][\A h \in TableRows :
        (/\ last'.op = "saveEdit" /\ last'.row = h
         /\ SaveIssued(h)
         /\ rows[h].editorText = rows[h].editorValue
         /\ store[rows[h].key] # Absent
         /\ getType(store[rows[h].key]) = rows[h].type
         /\ formatDisplayValue(store[rows[h].key]) = rows[h].displayText
         /\ formatEditorValue(store[rows[h].key]) = rows[h].editorValue)
        => writes'[Len(writes')].val = store[rows[h].key]]_vars

\* The values a display text can be the display form of: the text itself as
\* a string, and the value it spells as JSON.
ValuesShownAs(text) ==
    {JsStr(text)} \cup (IF JsonParse(text).ok THEN {JsonParse(text).val} ELSE {})

\* C35: of every row, the cached display text and the cached editor text are
\* the display form and the editor form of one value, and the display area
\* shows the cached display text.
C35_CachesOfOneValue ==
    \A h \in DOMAIN rows :
        /\ rows[h].displayText = rows[h].displayValue
        /\ \E v \in ValuesShownAs(rows[h].displayValue) :
               /\ formatDisplayValue(v) = rows[h].displayValue
               /\ formatEditorValue(v) = rows[h].editorValue

\* C35's case: a reconcile pass has patched the row of kz with the value
\* another context wrote.
C35_Witness ==
    /\ last.op = "loaded"
    /\ n.ext = 0
    /\ store[KeyKZ] = JsStr(<<"t">>)
    /\ \E h \in TableRows :
           /\ rows[h].key = KeyKZ
           /\ rows[h].displayValue = <<"t">>
           /\ rows[h].editorValue = <<"t">>

\* Values of every kind a storage area can hold.
SampleValues ==
    {JsNull, JsBool(TRUE), JsBool(FALSE), JsNum(0), JsNum(1), JsNum(0 - 2),
     JsStr(<<>>), JsStr(<<"t", "r", "u", "e">>), JsStr(<<"1">>),
     JsStr(<<"n", "u", "l", "l">>),
     JsArr(<<>>), JsArr(<<JsBool(TRUE)>>), JsObj(<<>>), ObjX(1),
     JsObj(<< <<<<"x">>, JsNull>> >>)}

\* C36: getType gives every value one of the four types: object for arrays
\* and objects, boolean for true and false, number for numbers, string for
\* all else, null included; and the row made for an entry carries the type
\* of the entry's value.
C36_TypeOfValue ==
    [][LET typeOf(v) ==
               CASE v.t \in {"array", "object"} -> "object"
                 [] v.t = "boolean" /\ v.v \in BOOLEAN -> "boolean"
                 [] v.t = "number" -> "number"
                 [] OTHER -> "string"
       IN  /\ \A v \in SampleValues :
                  /\ getType(v) \in {"object", "boolean", "number", "string"}
                  /\ getType(v) = typeOf(v)
           /\ \A i \in 1..Len(passes) :
                  (Applied(i) /\ last'.op = "loaded") =>
                      \A g \in TableRows' \ TableRows :
                          rows'[g].type
                            = typeOf(passes[i].all[rows'[g].key])]_vars

\* C36's case: the area holds null under kz and the row made for it is a
\* string row that shows the text null.
C36_Witness ==
    /\ store[KeyKZ] = JsNull
    /\ \E h \in TableRows :
           /\ rows[h].key = KeyKZ
           /\ rows[h].type = "string"
           /\ rows[h].displayText = <<"n", "u", "l", "l">>

\* Keys with dots and type names in them.
SampleKeys ==
    KeySet \cup {<<"a">>, <<"a", ".">>,
                 <<"a", ".", "s", "t", "r", "i", "n", "g">>,
                 <<"a", ".", "s", "t", "r", "i", "n", "g", ".",
                   "n", "u", "m", "b", "e", "r">>,
                 <<".", "n", "u", "m", "b", "e", "r">>, <<>>}

\* One value of each type, and null.
SampleTyped == {JsNull, JsBool(TRUE), JsNum(0), JsStr(<<>>), ObjX(1)}

\* C37: entries that differ in key or type have different row ids, also for
\* keys with dots or type names in them (getRowId as init defines it), and a
\* reconcile pass changes the texts of a row only to those of the value it
\* read for the row's own key.
C37_IdentityInjective ==
    [][/\ (last'.op = "init") =>
              \A k1, k2 \in SampleKeys : \A v1, v2 \in SampleTyped :
                  (getRowId(k1, v1) = getRowId(k2, v2))
                  => (k1 = k2 /\ getType(v1) = getType(v2))
       /\ \A i \in 1..Len(passes) :
              (Applied(i) /\ last'.op = "loaded") =>
                  \A h \in TableRows \cap TableRows' :
                      (rows'[h].displayValue # rows[h].displayValue)
                      => /\ passes[i].all[rows[h].key] # Absent
                         /\ rows'[h].displayValue
                              = formatDisplayValue(passes[i].all[rows[h].key])]_vars
====
